---- MODULE Spec2Model ----
(***************************************************************************)
(* Model of the pdf-chatbot pipeline: the chunker (utils/chunking.py), the *)
(* page extractor (utils/pdf_processor.py), the vector store adapter       *)
(* (utils/rag_chain.py) and the Flask handlers (app.py).                   *)
(*                                                                         *)
(* Texts are sequences of one-character strings.  A store payload is the   *)
(* set of Documents a backend holds on disk.                               *)
(***************************************************************************)
EXTENDS Integers, Sequences, FiniteSets, TLC

VARIABLES
    \* ---- web application (app.py) ----
    prefer,      \* VECTOR_STORE_PREF, fixed at start-up
    ready,       \* session["ready"], per session
    history,     \* session["history"], per session
    store,       \* the session store directory VECTOR_BASE/session_<sid>
    uploads,     \* the shared UPLOAD_FOLDER: filename -> saved pdf or NoFile
    req,         \* the upload request a session has in flight
    last,        \* the response of the request handled last
    cleared,     \* a clear happened and no successful upload since
    built,       \* documents and backend of the last successful build
    \* ---- _chunk_text run step by step (chunking.py) ----
    c_text, c_size, c_overlap, c_start, c_chunks, c_pc,
    \* ---- history reconstruction of chat (app.py 179-189) ----
    r_stored, r_pairs, r_pc,
    \* ---- extraction and chunking of uploaded files (app.py 103-130) ----
    p_files,     \* the files extracted so far: pdf, source, outcome, pages
    p_all_pages, \* all_pages
    p_docs,      \* the list build_documents returned
    p_pc

appVars == <<prefer, ready, history, store, uploads, req, last, cleared, built>>
chunkVars == <<c_text, c_size, c_overlap, c_start, c_chunks, c_pc>>
reconVars == <<r_stored, r_pairs, r_pc>>
pageVars == <<p_files, p_all_pages, p_docs, p_pc>>
vars == <<appVars, chunkVars, reconVars, pageVars>>

\* ------------------------------------------------------------------ bounds
MaxLen == 4        \* longest text given to _chunk_text
MaxSize == 3       \* largest chunk size tried
MaxOverlap == 4    \* largest overlap tried (reaches overlap >= size)
MaxLog == 4        \* longest history log given to the reconstruction
MaxTurns == 1      \* completed chat turns kept per session
MaxFiles == 2      \* files extracted into one all_pages list

\* ------------------------------------------------------- program settings
\* CHUNK_SIZE / CHUNK_OVERLAP / TOP_K_RESULTS are read from the environment;
\* the model runs the application with a small legal configuration.
CHUNK_SIZE == 2
CHUNK_OVERLAP == 1
TOP_K_RESULTS == 1
MAX_FILE_SIZE == 10

Max(a, b) == IF a >= b THEN a ELSE b
Min(a, b) == IF a <= b THEN a ELSE b

\* ================================================================ chunker
\* Python slice text[a:b] for 0 <= a, any b: a negative b counts from the end.
PySlice(text, a, b) ==
    LET n == Len(text)
        hi == IF b < 0 THEN Max(0, b + n) ELSE Min(n, b)
        lo == Min(a, n)
    IN  IF lo >= hi THEN <<>> ELSE SubSeq(text, lo + 1, hi)

\* step = max(1, size - overlap), with a variant that lets the step reach 0
\* and one that ignores the overlap.
StepNoFloor(size, overlap) == Max(0, size - overlap)
StepNoOverlap(size, overlap) == Max(1, size)
Step(size, overlap) == Max(1, size - overlap)

ChunkEnd(n, start, size) == Min(n, start + size)

\* The while loop of _chunk_text from a given start with the chunks so far.
RECURSIVE ChunkLoop(_, _, _, _, _)
ChunkLoop(text, size, step, start, chunks) ==
    IF ~(start < Len(text)) THEN chunks
    ELSE LET end == ChunkEnd(Len(text), start, size)
             out == Append(chunks, PySlice(text, start, end))
         IN  IF end >= Len(text) THEN out
             ELSE ChunkLoop(text, size, step, start + step, out)

ChunkText(text, size, overlap) ==
    IF text = <<>> THEN <<>>
    ELSE ChunkLoop(text, size, Step(size, overlap), 0, <<>>)

\* f"{source}-p{page_no}-c{idx}"
ChunkId(source, page_no, idx) ==
    source \o "-p" \o ToString(page_no) \o "-c" \o ToString(idx)

Document(ch, page_no, source, idx) ==
    [page_content |-> ch, page |-> page_no, source |-> source,
     chunk_id |-> ChunkId(source, page_no, idx)]

PageDocs(p, size, overlap) ==
    LET chs == ChunkText(p.text, size, overlap)
    IN  [k \in 1..Len(chs) |-> Document(chs[k], p.page, p.source, k - 1)]

RECURSIVE BuildDocuments(_, _, _)
BuildDocuments(pages, size, overlap) ==
    IF pages = <<>> THEN <<>>
    ELSE PageDocs(Head(pages), size, overlap)
             \o BuildDocuments(Tail(pages), size, overlap)

Range(f) == {f[i] : i \in DOMAIN f}

\* ========================================================= page extractor
IsSpace(c) == c \in {" ", "\n", "\t"}

\* re.sub(r"\s+", " ", text)
RECURSIVE CollapseSpaces(_)
CollapseSpaces(text) ==
    IF text = <<>> THEN <<>>
    ELSE IF IsSpace(Head(text))
         THEN IF Len(text) > 1 /\ IsSpace(text[2])
              THEN CollapseSpaces(Tail(text))
              ELSE <<" ">> \o CollapseSpaces(Tail(text))
         ELSE <<Head(text)>> \o CollapseSpaces(Tail(text))

\* str.strip()
RECURSIVE StripText(_)
StripText(text) ==
    IF text = <<>> THEN <<>>
    ELSE IF IsSpace(Head(text)) THEN StripText(Tail(text))
    ELSE IF IsSpace(text[Len(text)]) THEN StripText(SubSeq(text, 1, Len(text) - 1))
    ELSE text

CleanText(text) == IF text = <<>> THEN <<>> ELSE StripText(CollapseSpaces(text))

\* The pdf files of the model: the raw text of each physical page.
Pdfs == {"A", "B"}
PdfPages(pdf) ==
    IF pdf = "A" THEN << <<"a", "b", "c">> >>
    ELSE << <<" ", "d", " ", "\n">>, <<" ", " ">> >>

\* One extraction loop: the first k pages, enumerate(..., start=1).
PagesUpTo(pdf, source, k) ==
    [i \in 1..k |-> [page |-> i, text |-> CleanText(PdfPages(pdf)[i]), source |-> source]]

\* How the two libraries behave on one file.  plumber / reader are Whole
\* (the library read every page) or the number of pages appended before
\* the library raised; reader is NoReader when PyPDF2 could not be imported.
Whole == -1
NoReader == -2
ExtractOutcomes(pdf) ==
    LET n == Len(PdfPages(pdf))
    IN  [plumber : {Whole} \cup (0..(n - 1)),
         reader : {Whole, NoReader} \cup (0..(n - 1))]

\* extract_text_by_page: both attempts append to the same list `pages`.
ExtractTextByPage(pdf, source, xo) ==
    LET n == Len(PdfPages(pdf))
    IN  IF xo.plumber = Whole THEN PagesUpTo(pdf, source, n)
        ELSE LET part == PagesUpTo(pdf, source, xo.plumber)
             IN  IF xo.reader = NoReader THEN part
                 ELSE IF xo.reader = Whole THEN part \o PagesUpTo(pdf, source, n)
                 ELSE part \o PagesUpTo(pdf, source, xo.reader)

\* =================================================== vector store adapter
Backends == {"faiss", "chroma", "docarray"}
NoMarker == "<no store_type.txt>"
Absent == [present |-> FALSE, docs |-> {}]
Payload(docs) == [present |-> TRUE, docs |-> docs]

\* A store directory: the marker file store_type.txt and the payload of
\* each backend (index.faiss/index.pkl, the chroma collection, docs.json).
NoDir == [exists |-> FALSE, marker |-> NoMarker,
          faiss |-> Absent, chroma |-> Absent, docarray |-> Absent]

MakeDirs(d) == [d EXCEPT !.exists = TRUE]

\* _write_store_type, and a variant that always records the primary backend.
WriteStoreTypeAlwaysFaiss(d, store_type) ==
    [MakeDirs(d) EXCEPT !.marker = "faiss"]
WriteStoreType(d, store_type) ==
    [MakeDirs(d) EXCEPT !.marker = store_type]

\* _read_store_type: the marker text, or None when the file cannot be read.
None == "<None>"
ReadStoreType(d, readable) ==
    IF d.exists /\ d.marker # NoMarker /\ readable THEN d.marker ELSE None

\* One backend attempt of build_and_save_store.  outcome "ok": the payload
\* is written and then the marker; "fail": the library raised before
\* anything was written; "fail_late": the payload was written and a later
\* statement of the attempt (persist(), _write_store_type) raised, leaving
\* the marker file as it was.
AttemptOutcomes == {"ok", "fail", "fail_late"}

\* FAISS.from_documents + save_local(path): index files are overwritten.
TryFaiss(d, documents, outcome) ==
    IF outcome = "fail" THEN [dir |-> d, ok |-> FALSE]
    ELSE LET w == [d EXCEPT !.faiss = Payload(documents)]
         IN  IF outcome = "ok"
             THEN [dir |-> WriteStoreType(w, "faiss"), ok |-> TRUE]
             ELSE [dir |-> w, ok |-> FALSE]

\* Chroma.from_documents(persist_directory=path): opens the collection
\* persisted at path, if any, and adds the documents to it.
TryChroma(d, documents, outcome) ==
    IF outcome = "fail" THEN [dir |-> d, ok |-> FALSE]
    ELSE LET w == [d EXCEPT !.chroma = Payload(d.chroma.docs \cup documents)]
         IN  IF outcome = "ok"
             THEN [dir |-> WriteStoreType(w, "chroma"), ok |-> TRUE]
             ELSE [dir |-> w, ok |-> FALSE]

\* DocArrayInMemorySearch.from_documents, then docs.json is rewritten.
TryDocArray(d, documents, outcome) ==
    IF outcome = "fail" THEN [dir |-> d, ok |-> FALSE]
    ELSE LET w == [d EXCEPT !.docarray = Payload(documents)]
         IN  IF outcome = "ok"
             THEN [dir |-> WriteStoreType(w, "docarray"), ok |-> TRUE]
             ELSE [dir |-> w, ok |-> FALSE]

\* Whether build_and_save_store attempts the primary backend at all.
TriesFaissAlways(pref) == TRUE
TriesFaiss(pref) == pref = "faiss"

\* build_and_save_store(documents, embeddings, path, prefer) under the
\* outcomes o = [faiss, chroma, docarray] of the three attempts.
\* Result: the directory afterwards, whether the call raised, the backend
\* that served the build and the attempts made, in order.
BuildAndSaveStore(d0, documents, pref, o) ==
    LET d == MakeDirs(d0)
        f == IF TriesFaiss(pref) THEN TryFaiss(d, documents, o.faiss)
             ELSE [dir |-> d, ok |-> FALSE]
        tf == IF TriesFaiss(pref) THEN <<"faiss">> ELSE <<>>
    IN  IF f.ok
        THEN [dir |-> f.dir, raised |-> FALSE, backend |-> "faiss", tried |-> tf]
        ELSE LET c == TryChroma(f.dir, documents, o.chroma)
             IN  IF c.ok
                 THEN [dir |-> c.dir, raised |-> FALSE, backend |-> "chroma",
                       tried |-> tf \o <<"chroma">>]
                 ELSE LET a == TryDocArray(c.dir, documents, o.docarray)
                      IN  [dir |-> a.dir, raised |-> ~a.ok,
                           backend |-> IF a.ok THEN "docarray" ELSE None,
                           tried |-> tf \o <<"chroma", "docarray">>]

\* The outcomes of the attempts of one build; an attempt that is never made
\* (after a successful one, or faiss when it is not preferred) has no
\* outcome of its own and is given a fixed one.
BuildOutcomes(pref) ==
    {o \in [faiss : AttemptOutcomes, chroma : AttemptOutcomes,
            docarray : AttemptOutcomes] :
        /\ ~TriesFaiss(pref) => o.faiss = "fail"
        /\ o.faiss = "ok" => o.chroma = "ok"
        /\ o.chroma = "ok" => o.docarray = "ok"}

\* ---- load_store ----
\* The environment of one load: whether store_type.txt can be read, whether
\* the installed FAISS rejects allow_dangerous_deserialization (TypeError),
\* and whether each library works at all.
LoadOutcomes == [readable : BOOLEAN, oldFaiss : BOOLEAN, faiss : BOOLEAN,
                 chroma : BOOLEAN, docarray : BOOLEAN]

\* FAISS.load_local(path, ...): "TypeError", "Exception" or "ok".
FaissLoadLocal(d, lo, withKeyword) ==
    IF withKeyword /\ lo.oldFaiss THEN "TypeError"
    ELSE IF ~lo.faiss \/ ~d.faiss.present THEN "Exception"
    ELSE "ok"

Loaded(d, docs, via) == [dir |-> d, raised |-> FALSE, docs |-> docs, via |-> via]
LoadRaised(d) == [dir |-> d, raised |-> TRUE, docs |-> {}, via |-> None]

\* try: FAISS.load_local(.., allow_dangerous_deserialization=True)
\* except TypeError: FAISS.load_local(..)        -- lines 69-72 and 85-88
FaissWithRetry(d, lo) ==
    LET first == FaissLoadLocal(d, lo, TRUE)
    IN  IF first = "TypeError" THEN FaissLoadLocal(d, lo, FALSE) ELSE first

\* Chroma(persist_directory=path): opens the collection at path, creating an
\* empty one when there is none.
ChromaOpen(d) == [d EXCEPT !.chroma = Payload(d.chroma.docs)]

\* json.load(docs.json) and DocArrayInMemorySearch.from_documents
DocArrayRebuildOk(d, lo) == d.docarray.present /\ lo.docarray

LoadStore(d, lo) ==
    LET stype == ReadStoreType(d, lo.readable)
    IN  IF stype = "faiss"
        THEN IF FaissWithRetry(d, lo) = "ok"
             THEN Loaded(d, d.faiss.docs, "faiss") ELSE LoadRaised(d)
        ELSE IF stype = "chroma"
        THEN IF lo.chroma
             THEN Loaded(ChromaOpen(d), d.chroma.docs, "chroma") ELSE LoadRaised(d)
        ELSE IF stype = "docarray"
        THEN IF DocArrayRebuildOk(d, lo)
             THEN Loaded(d, d.docarray.docs, "docarray") ELSE LoadRaised(d)
        \* Unknown: try FAISS then Chroma
        ELSE LET first == FaissLoadLocal(d, lo, TRUE)
             IN  IF first = "ok" THEN Loaded(d, d.faiss.docs, "faiss")
                 ELSE IF first = "TypeError"
                 THEN \* the retry runs inside the except clause: what it
                      \* raises is not caught by `except Exception`
                      IF FaissLoadLocal(d, lo, FALSE) = "ok"
                      THEN Loaded(d, d.faiss.docs, "faiss") ELSE LoadRaised(d)
                 ELSE IF lo.chroma THEN Loaded(ChromaOpen(d), d.chroma.docs, "chroma")
                 ELSE IF DocArrayRebuildOk(d, lo)
                 THEN Loaded(d, d.docarray.docs, "docarray")
                 ELSE LoadRaised(d)

\* The loaders load_store runs, in order, on a directory under the outcomes
\* lo; the retry of lines 72 and 88 belongs to the faiss loader.
LoadTried(d, lo) ==
    LET stype == ReadStoreType(d, lo.readable)
    IN  IF stype \in Backends THEN <<stype>>
        ELSE IF FaissLoadLocal(d, lo, TRUE) \in {"ok", "TypeError"} THEN <<"faiss">>
        ELSE IF lo.chroma THEN <<"faiss", "chroma">>
        ELSE <<"faiss", "chroma", "docarray">>

\* Every result load_store can give on a directory under the outcomes los.
LoadResults(d, los) == {LoadStore(d, lo) : lo \in los}

\* ---- shutil.rmtree(store_path) inside try/except in clear ----
\* "ok" removes the directory; a failure leaves the directory with the
\* entries in `kept` and removes the others.
DirEntries == {"marker", "faiss", "chroma", "docarray"}
RmOutcomes == [ok : {TRUE}, kept : {{}}] \cup [ok : {FALSE}, kept : SUBSET DirEntries]

RmTree(d, rm) ==
    IF rm.ok THEN NoDir
    ELSE [exists |-> TRUE,
          marker |-> IF "marker" \in rm.kept THEN d.marker ELSE NoMarker,
          faiss |-> IF "faiss" \in rm.kept THEN d.faiss ELSE Absent,
          chroma |-> IF "chroma" \in rm.kept THEN d.chroma ELSE Absent,
          docarray |-> IF "docarray" \in rm.kept THEN d.docarray ELSE Absent]

\* The Documents build_documents makes of one pdf saved as x.pdf.
DocsOfPdf(pdf) ==
    Range(BuildDocuments(PagesUpTo(pdf, "x.pdf", Len(PdfPages(pdf))),
                         CHUNK_SIZE, CHUNK_OVERLAP))

\* ======================================================= idle components
\* Each specification runs one component; the variables of the others stay
\* at these values.
NoFile == "<no file>"
IdleReq == [pc |-> "idle"]
NoBuild == [docs |-> {}, backend |-> None]

AppIdle ==
    /\ prefer = "faiss"
    /\ ready = [s \in {"s1"} |-> FALSE]
    /\ history = [s \in {"s1"} |-> <<>>]
    /\ store = [s \in {"s1"} |-> NoDir]
    /\ uploads = [f \in {"x.pdf"} |-> NoFile]
    /\ req = [s \in {"s1"} |-> IdleReq]
    /\ last = [op |-> "none"]
    /\ cleared = [s \in {"s1"} |-> FALSE]
    /\ built = [s \in {"s1"} |-> NoBuild]

ChunkIdle ==
    /\ c_text = <<>> /\ c_size = 1 /\ c_overlap = 0
    /\ c_start = 0 /\ c_chunks = <<>> /\ c_pc = "idle"

ReconIdle == r_stored = <<>> /\ r_pairs = <<>> /\ r_pc = "idle"

PagesIdle ==
    p_files = <<>> /\ p_all_pages = <<>> /\ p_docs = <<>> /\ p_pc = "idle"

\* ============================================ the store directory alone
\* build_and_save_store, load_store and the rmtree of clear applied in any
\* order to one store path, under every outcome of the libraries.
Preferences == {"faiss", "chroma"}
DocSets == {DocsOfPdf("A"), DocsOfPdf("B"), {}}

InitStore ==
    /\ prefer \in Preferences
    /\ ready = [s \in {"s1"} |-> FALSE]
    /\ history = [s \in {"s1"} |-> <<>>]
    /\ store = [s \in {"s1"} |-> NoDir]
    /\ uploads = [f \in {"x.pdf"} |-> NoFile]
    /\ req = [s \in {"s1"} |-> IdleReq]
    /\ last = [op |-> "none"]
    /\ cleared = [s \in {"s1"} |-> FALSE]
    /\ built = [s \in {"s1"} |-> NoBuild]
    /\ ChunkIdle /\ ReconIdle /\ PagesIdle

StoreFrame == UNCHANGED <<prefer, ready, history, uploads, req, cleared,
                          chunkVars, reconVars, pageVars>>

StoreBuild(documents, o) ==
    LET r == BuildAndSaveStore(store["s1"], documents, prefer, o)
    IN  /\ store' = [store EXCEPT !["s1"] = r.dir]
        /\ built' = IF r.raised THEN built
                    ELSE [built EXCEPT !["s1"] = [docs |-> documents, backend |-> r.backend]]
        /\ last' = [op |-> "build", docs |-> documents, tried |-> r.tried,
                    outcomes |-> [k \in 1..Len(r.tried) |-> o[r.tried[k]]],
                    backend |-> r.backend, raised |-> r.raised]
        /\ StoreFrame

StoreLoad(lo) ==
    LET r == LoadStore(store["s1"], lo)
    IN  /\ store' = [store EXCEPT !["s1"] = r.dir]
        /\ last' = [op |-> "load", raised |-> r.raised, docs |-> r.docs, via |-> r.via,
                    stype |-> ReadStoreType(store["s1"], lo.readable),
                    tried |-> LoadTried(store["s1"], lo),
                    on |-> [b \in Backends |-> store["s1"][b].present]]
        /\ UNCHANGED built
        /\ StoreFrame

\* clear, lines 231-236: get_session_store_path() then rmtree
StoreClear(rm) ==
    /\ store' = [store EXCEPT !["s1"] = RmTree(MakeDirs(store["s1"]), rm)]
    /\ last' = [op |-> "clear", removed |-> rm.ok]
    /\ UNCHANGED built
    /\ StoreFrame

NextStore ==
    \/ \E documents \in DocSets, o \in BuildOutcomes(prefer) : StoreBuild(documents, o)
    \/ \E lo \in LoadOutcomes : StoreLoad(lo)
    \/ \E rm \in RmOutcomes : StoreClear(rm)

SpecStore == InitStore /\ [][NextStore]_vars

\* ------------------------------------------------------------ claims C9, C10
\* C9 as stated: every build starts with the primary backend (faiss), and a
\* build raises to its caller only after all three attempts, faiss, chroma
\* and docarray, were made and failed.
C9_AllThreeAttempted ==
    last.op = "build" =>
        /\ Head(last.tried) = "faiss"
        /\ last.raised => last.tried = <<"faiss", "chroma", "docarray">>

\* C9 amended: the attempts follow the fixed order faiss, chroma, docarray,
\* starting at faiss when faiss is the preferred backend and at chroma
\* otherwise; build stops at the first attempt that succeeds and the marker
\* names that backend; failures of earlier attempts are caught; build raises
\* exactly when every attempt it makes has failed.
C9_FallbackOrder ==
    last.op = "build" =>
        LET chain == IF prefer = "faiss" THEN <<"faiss", "chroma", "docarray">>
                     ELSE <<"chroma", "docarray">>
            n == Len(last.tried)
        IN  /\ 1 <= n /\ n <= Len(chain)
            /\ last.tried = SubSeq(chain, 1, n)
            /\ \A k \in 1..(n - 1) : last.outcomes[k] # "ok"
            /\ last.raised <=> (n = Len(chain) /\ last.outcomes[n] # "ok")
            /\ ~last.raised =>
                  /\ last.outcomes[n] = "ok"
                  /\ last.backend = last.tried[n]
                  /\ store["s1"].marker = last.backend

\* A build served by the raw-document fallback after faiss and chroma failed.
C9_Witness ==
    /\ last.op = "build" /\ ~last.raised
    /\ last.tried = <<"faiss", "chroma", "docarray">>
    /\ store["s1"].marker = "docarray"

SecureFilename(name) == IF name = "../x.pdf" THEN "x.pdf" ELSE name

\* allowed_file: "." in filename and the lower-cased extension is "pdf".
FileExt(filename) ==
    IF filename = "x.pdf" THEN "pdf"
    ELSE IF filename = "notes.txt" THEN "txt"
    ELSE None
AllowedFile(filename) == FileExt(filename) # None /\ FileExt(filename) \in {"pdf"}

File(name, pdf, size) == [filename |-> name, pdf |-> pdf, size |-> size]

\* request.files.getlist("files") of the upload requests of the model.
Requests ==
    { <<>>,
      <<File("x.pdf", "A", 1)>>,
      <<File("../x.pdf", "B", 1)>>,
      <<File("notes.txt", "A", 1)>>,
      <<File("", "A", 1)>>,
      <<File("x.pdf", "A", MAX_FILE_SIZE + 1)>>,
      <<File("x.pdf", "B", 0), File("notes.txt", "A", 1)>> }

Response(s, op, status, stage) ==
    [s |-> s, op |-> op, status |-> status, stage |-> stage]

AppFrame == UNCHANGED <<chunkVars, reconVars, pageVars>>

\* upload, lines 104-115: the checks on one file; 200 when it is accepted.
FileStatus(f) ==
    LET filename == SecureFilename(f.filename)
    IN  IF filename = "" THEN 400
        ELSE IF ~AllowedFile(filename) THEN 400
        ELSE IF f.size # 0 /\ f.size > MAX_FILE_SIZE THEN 413
        ELSE 200

\* upload, lines 117-118: f.save(os.path.join(UPLOAD_FOLDER, filename))
SaveFile(ups, f) == [ups EXCEPT ![SecureFilename(f.filename)] = f.pdf]

\* upload, lines 103-123 run without interruption from file i on: every
\* way the loop can end, over the outcomes of the extraction libraries.
RECURSIVE UploadLoop(_, _, _, _)
UploadLoop(files, i, all_pages, ups) ==
    IF i > Len(files)
    THEN {[status |-> 200, uploads |-> ups, all_pages |-> all_pages]}
    ELSE IF FileStatus(files[i]) # 200
    THEN {[status |-> FileStatus(files[i]), uploads |-> ups, all_pages |-> all_pages]}
    ELSE LET filename == SecureFilename(files[i].filename)
             saved == SaveFile(ups, files[i])
         IN  UNION { UploadLoop(files, i + 1,
                                all_pages \o ExtractTextByPage(saved[filename], filename, xo),
                                saved)
                     : xo \in ExtractOutcomes(saved[filename]) }

\* upload, lines 125-130: the Documents of every way the file loop can end.
UploadResults(files, ups) ==
    { [status |-> r.status, uploads |-> r.uploads, no_pages |-> r.all_pages = <<>>,
       documents |-> Range(BuildDocuments(r.all_pages, CHUNK_SIZE, CHUNK_OVERLAP))]
      : r \in UploadLoop(files, 1, <<>>, ups) }

\* upload, lines 132-149: build the store and reset the session.
\* no_pages: all_pages is empty (the 200 response reports "pages": 0);
\* o: the outcomes of the store backends.
FinishUpload(s, no_pages, documents, o) ==
    LET r == BuildAndSaveStore(store[s], documents, prefer, o)
    IN  /\ store' = [store EXCEPT ![s] = r.dir]
        /\ IF r.raised
           THEN /\ last' = Response(s, "upload", 500, "build")
                /\ UNCHANGED <<ready, history, cleared, built>>
           ELSE /\ history' = [history EXCEPT ![s] = <<>>]
                /\ ready' = [ready EXCEPT ![s] = TRUE]
                /\ cleared' = [cleared EXCEPT ![s] = FALSE]
                /\ built' = [built EXCEPT ![s] =
                               [docs |-> documents, backend |-> r.backend]]
                /\ last' = [s |-> s, op |-> "upload", status |-> 200,
                            stage |-> "done", no_pages |-> no_pages]

\* upload, lines 92-149, as one request handled without interruption.
Upload(s, files) ==
    /\ req[s].pc = "idle"
    /\ IF files = <<>>
       THEN /\ last' = Response(s, "upload", 400, "files")
            /\ UNCHANGED <<ready, history, store, uploads, cleared, built>>
       ELSE \E r \in UploadResults(files, uploads) :
              /\ uploads' = r.uploads
              /\ IF r.status # 200
                 THEN /\ last' = Response(s, "upload", r.status, "validate")
                      /\ UNCHANGED <<ready, history, store, cleared, built>>
                 ELSE \E o \in BuildOutcomes(prefer) : FinishUpload(s, r.no_pages, r.documents, o)
    /\ UNCHANGED <<prefer, req>>
    /\ AppFrame

\* ---- chat: history reconstruction, lines 179-189 ----
\* dict.get(key, default)
Get(msg, key, default) == IF key \in DOMAIN msg THEN msg[key] ELSE default

\* last_user: None, or the content of the pending user entry.
NoUser == [some |-> FALSE]
Pending(content) == [some |-> TRUE, content |-> content]

\* line 189, last_user = None after a pair is emitted, and a variant that
\* keeps the pending question.
KeepLastUser(last_user) == last_user
AfterPair(last_user) == NoUser

RECURSIVE ReconstructLoop(_, _, _)
ReconstructLoop(stored, last_user, chat_history) ==
    IF stored = <<>> THEN chat_history
    ELSE LET msg == Head(stored)
             role == Get(msg, "role", None)
             content == Get(msg, "content", "")
         IN  IF role = "user"
             THEN ReconstructLoop(Tail(stored), Pending(content), chat_history)
             ELSE IF role = "assistant" /\ last_user.some
             THEN ReconstructLoop(Tail(stored), AfterPair(last_user),
                                  Append(chat_history, <<last_user.content, content>>))
             ELSE ReconstructLoop(Tail(stored), last_user, chat_history)

Reconstruct(stored) == ReconstructLoop(stored, NoUser, <<>>)

\* ---- chat ----
\* The question texts of the model, before .strip().
Questions == { <<>>, <<" ", " ">>, <<" ", "q", " ">> }

\* What conv.invoke returns besides the source documents.
ConvResults == { [answer |-> "A1"] }

\* result.get("answer") or result.get("result", "")
Answer(result) ==
    IF Get(result, "answer", "") # "" THEN result.answer ELSE Get(result, "result", "")

\* The retriever returns min(k, |docs|) distinct documents in ranked order.
Rankings(docs, k) ==
    LET m == Min(k, Cardinality(docs))
    IN  {f \in [1..m -> docs] : \A i, j \in 1..m : i # j => f[i] # f[j]}

Citations(source_docs) ==
    [k \in 1..Len(source_docs) |->
        [source |-> source_docs[k].source, page |-> source_docs[k].page]]

\* lines 207-210
AppendTurnUserOnly(log, question, answer, citations) ==
    Append(log, [role |-> "user", content |-> question])
AppendTurn(log, question, answer, citations) ==
    log \o << [role |-> "user", content |-> question],
              [role |-> "assistant", content |-> answer, citations |-> citations] >>

\* The history a chat leaves when it fails after the question was accepted
\* (the returns of lines 168, 174 and 193), and a variant that has logged
\* the question before the answer is known.
HistoryOnFailureLogsQuestion(log, question) ==
    Append(log, [role |-> "user", content |-> question])
HistoryOnFailure(log, question) == log

\* chat, lines 154-215.  The outcomes of load_store (from los), get_llm and
\* conv.invoke (from oks) are drawn where the handler reaches them.
Chat(s, question, los, oks) ==
    /\ req[s].pc = "idle"
    /\ LET q == StripText(question)
       IN  IF q = <<>>
           THEN /\ last' = Response(s, "chat", 400, "question")
                /\ UNCHANGED <<history, store>>
           ELSE IF ~ready[s]
           THEN /\ last' = Response(s, "chat", 409, "ready")
                /\ UNCHANGED <<history, store>>
           ELSE \E loaded \in LoadResults(MakeDirs(store[s]), los) :
                      /\ store' = [store EXCEPT ![s] = loaded.dir]
                      /\ IF loaded.raised
                         THEN /\ last' = Response(s, "chat", 500, "load")
                              /\ history' = [history EXCEPT ![s] = HistoryOnFailure(@, q)]
                         ELSE \E llmOk, convOk \in oks :
                                IF ~llmOk \/ ~convOk
                                THEN /\ last' = Response(s, "chat", 500,
                                                   IF ~llmOk THEN "llm" ELSE "invoke")
                                     /\ history' = [history EXCEPT ![s] =
                                                       HistoryOnFailure(@, q)]
                                ELSE /\ Len(history[s]) < 2 * MaxTurns
                                     /\ \E result \in ConvResults,
                                           source_docs \in Rankings(loaded.docs, TOP_K_RESULTS) :
                                          /\ history' = [history EXCEPT ![s] =
                                                 AppendTurn(@, q, Answer(result),
                                                            Citations(source_docs))]
                                          /\ last' = [s |-> s, op |-> "chat", status |-> 200,
                                                      stage |-> "done",
                                                      pairs |-> Len(Reconstruct(history[s]))]
    /\ UNCHANGED <<prefer, ready, uploads, req, cleared, built>>
    /\ AppFrame

\* history, lines 218-221
History(s) ==
    /\ req[s].pc = "idle"
    /\ last' = Response(s, "history", 200, "done")
    /\ UNCHANGED <<prefer, ready, history, store, uploads, req, cleared, built>>
    /\ AppFrame

\* lines 228-229 of clear, and a variant that forgets the ready flag.
ReadyAfterClearKept(flag) == flag
ReadyAfterClear(flag) == FALSE

\* The outcomes of rmtree the application is run under: the directory is
\* removed, or rmtree raises at once and removes nothing.
AppRmOutcomes == {rm \in RmOutcomes : rm.ok \/ rm.kept = DirEntries}

\* clear, lines 224-238.  rm: the outcome of shutil.rmtree.
Clear(s, rm) ==
    /\ req[s].pc = "idle"
    /\ history' = [history EXCEPT ![s] = <<>>]
    /\ ready' = [ready EXCEPT ![s] = ReadyAfterClear(@)]
    /\ store' = [store EXCEPT ![s] = RmTree(MakeDirs(@), rm)]
    /\ cleared' = [cleared EXCEPT ![s] = TRUE]
    /\ built' = [built EXCEPT ![s] = NoBuild]
    /\ last' = Response(s, "clear", 200, "done")
    /\ UNCHANGED <<prefer, uploads, req>>
    /\ AppFrame

\* ---- one session, every outcome of the environment ----
Init ==
    /\ prefer = "faiss"
    /\ ready = [s \in {"s1"} |-> FALSE]
    /\ history = [s \in {"s1"} |-> <<>>]
    /\ store = [s \in {"s1"} |-> NoDir]
    /\ uploads = [f \in {"x.pdf"} |-> NoFile]
    /\ req = [s \in {"s1"} |-> IdleReq]
    /\ last = [op |-> "none"]
    /\ cleared = [s \in {"s1"} |-> FALSE]
    /\ built = [s \in {"s1"} |-> NoBuild]
    /\ ChunkIdle /\ ReconIdle /\ PagesIdle

DoUpload == \E s \in DOMAIN ready, files \in Requests : Upload(s, files)
DoChat ==
    \E s \in DOMAIN ready, question \in Questions :
        Chat(s, question, LoadOutcomes, BOOLEAN)
DoHistory == \E s \in DOMAIN ready : History(s)
DoClear == \E s \in DOMAIN ready, rm \in AppRmOutcomes : Clear(s, rm)

Next == DoUpload \/ DoChat \/ DoHistory \/ DoClear

Spec == Init /\ [][Next]_vars

\* ---- two sessions served concurrently ----
\* The upload handler touches the shared UPLOAD_FOLDER twice per file, at
\* f.save (line 118) and at extract_text_by_page (line 121); requests of
\* different sessions interleave between the two.  The libraries, the store
\* backends and rmtree work; each session sends its own pdf.
OwnPdf(s) == IF s = "s1" THEN "A" ELSE "B"
IsoRequests(s) ==
    { <<>>,
      <<File("x.pdf", OwnPdf(s), 1)>>,
      <<File("x.pdf", OwnPdf(s), 0), File("notes.txt", OwnPdf(s), 1)>> }
AllWork == [readable |-> TRUE, oldFaiss |-> FALSE, faiss |-> TRUE,
            chroma |-> TRUE, docarray |-> TRUE]
WholeFile == [plumber |-> Whole, reader |-> Whole]
AllOk == [faiss |-> "ok", chroma |-> "ok", docarray |-> "ok"]

\* upload, lines 93-101: the request arrives; no file list is a 400.
UploadBegin(s, files) ==
    /\ req[s].pc = "idle"
    /\ IF files = <<>>
       THEN /\ last' = Response(s, "upload", 400, "files")
            /\ UNCHANGED req
       ELSE /\ req' = [req EXCEPT ![s] = [pc |-> "save", files |-> files, i |-> 1,
                                          all_pages |-> <<>>]]
            /\ UNCHANGED last
    /\ UNCHANGED <<prefer, ready, history, store, uploads, cleared, built>>
    /\ AppFrame

\* upload, lines 104-119: check file i and save it under UPLOAD_FOLDER.
UploadSave(s) ==
    /\ req[s].pc = "save"
    /\ LET f == req[s].files[req[s].i]
       IN  IF FileStatus(f) # 200
           THEN /\ req' = [req EXCEPT ![s] = IdleReq]
                /\ last' = Response(s, "upload", FileStatus(f), "validate")
                /\ UNCHANGED uploads
           ELSE /\ uploads' = SaveFile(uploads, f)
                /\ req' = [req EXCEPT ![s].pc = "extract"]
                /\ UNCHANGED last
    /\ UNCHANGED <<prefer, ready, history, store, cleared, built>>
    /\ AppFrame

\* upload, lines 121-149: extract the pages of the file now at save_path;
\* after the last file build the Documents and the store.
UploadExtract(s, xo, o) ==
    /\ req[s].pc = "extract"
    /\ LET filename == SecureFilename(req[s].files[req[s].i].filename)
           all_pages == req[s].all_pages
                          \o ExtractTextByPage(uploads[filename], filename, xo)
       IN  IF req[s].i < Len(req[s].files)
           THEN /\ req' = [req EXCEPT ![s].i = @ + 1, ![s].pc = "save",
                                      ![s].all_pages = all_pages]
                /\ UNCHANGED <<ready, history, store, last, cleared, built>>
           ELSE /\ req' = [req EXCEPT ![s] = IdleReq]
                /\ FinishUpload(s, all_pages = <<>>,
                                Range(BuildDocuments(all_pages, CHUNK_SIZE,
                                                     CHUNK_OVERLAP)), o)
    /\ UNCHANGED <<prefer, uploads>>
    /\ AppFrame

InitIso ==
    /\ prefer = "faiss"
    /\ ready = [s \in {"s1", "s2"} |-> FALSE]
    /\ history = [s \in {"s1", "s2"} |-> <<>>]
    /\ store = [s \in {"s1", "s2"} |-> NoDir]
    /\ uploads = [f \in {"x.pdf"} |-> NoFile]
    /\ req = [s \in {"s1", "s2"} |-> IdleReq]
    /\ last = [op |-> "none"]
    /\ cleared = [s \in {"s1", "s2"} |-> FALSE]
    /\ built = [s \in {"s1", "s2"} |-> NoBuild]
    /\ ChunkIdle /\ ReconIdle /\ PagesIdle

IsoUploadBegin ==
    \E s \in DOMAIN ready : \E files \in IsoRequests(s) : UploadBegin(s, files)
IsoUploadSave == \E s \in DOMAIN ready : UploadSave(s)
IsoUploadExtract == \E s \in DOMAIN ready : UploadExtract(s, WholeFile, AllOk)
IsoChat ==
    \E s \in DOMAIN ready, question \in Questions : Chat(s, question, {AllWork}, {TRUE})
IsoHistory == \E s \in DOMAIN ready : History(s)
IsoClear == \E s \in DOMAIN ready : Clear(s, [ok |-> TRUE, kept |-> {}])

NextIso ==
    \/ IsoUploadBegin \/ IsoUploadSave \/ IsoUploadExtract
    \/ IsoChat \/ IsoHistory \/ IsoClear

SpecIso == InitIso /\ [][NextIso]_vars

\* ------------------------------------------------------------------ claim C2
\* C2: whatever the interleaving of the requests of two sessions, the pages
\* indexed into a session's store come from the files that session
\* uploaded: the store of a session holds no Document made from the pdf of
\* the other session.
C2_SessionIsolation ==
    \A s \in DOMAIN ready : \A b \in Backends :
        store[s][b].docs \subseteq DocsOfPdf(OwnPdf(s))

\* =================================================== _chunk_text, stepwise
\* _chunk_text(text, size, overlap) run one loop iteration at a time, on
\* every text over {a, b} up to MaxLen and every size and overlap in range,
\* the values the caller is told not to pass (size <= 0, overlap < 0)
\* included.
RECURSIVE TextsOfLen(_)
TextsOfLen(n) ==
    IF n = 0 THEN {<<>>}
    ELSE {Append(t, c) : t \in TextsOfLen(n - 1), c \in {"a", "b"}}
Texts == UNION {TextsOfLen(n) : n \in 0..MaxLen}
Sizes == (-1)..MaxSize
Overlaps == (-1)..MaxOverlap

InitChunk ==
    /\ c_text \in Texts /\ c_size \in Sizes /\ c_overlap \in Overlaps
    /\ c_start = 0 /\ c_chunks = <<>> /\ c_pc = "entry"
    /\ AppIdle /\ ReconIdle /\ PagesIdle

ChunkFrame == UNCHANGED <<appVars, reconVars, pageVars, c_text, c_size, c_overlap>>

\* lines 6-11
ChunkEntry ==
    /\ c_pc = "entry"
    /\ c_pc' = IF c_text = <<>> THEN "done" ELSE "loop"
    /\ UNCHANGED <<c_start, c_chunks>>
    /\ ChunkFrame

\* lines 12-17: one iteration of the while loop
ChunkIter ==
    /\ c_pc = "loop"
    /\ c_start < Len(c_text)
    /\ Len(c_chunks) <= MaxLen
    /\ LET end == ChunkEnd(Len(c_text), c_start, c_size)
       IN  /\ c_chunks' = Append(c_chunks, PySlice(c_text, c_start, end))
           /\ IF end >= Len(c_text)
              THEN c_pc' = "done" /\ UNCHANGED c_start
              ELSE c_pc' = "loop" /\ c_start' = c_start + Step(c_size, c_overlap)
    /\ ChunkFrame

\* line 12 false, line 18
ChunkExit ==
    /\ c_pc = "loop"
    /\ ~(c_start < Len(c_text))
    /\ c_pc' = "done"
    /\ UNCHANGED <<c_start, c_chunks>>
    /\ ChunkFrame

NextChunk == ChunkEntry \/ ChunkIter \/ ChunkExit

\* The interpreter keeps running the loop: weak fairness of its steps.
SpecChunk == InitChunk /\ [][NextChunk]_vars /\ WF_vars(NextChunk)

\* ============================================= history reconstruction alone
\* Lines 179-189 of chat on every log of user / assistant entries up to
\* MaxLog, entries without content included.
LogEntries ==
    [role : {"user", "assistant"}, content : {"A", "B"}]
        \cup [role : {"user", "assistant"}]
Logs == UNION {[1..n -> LogEntries] : n \in 0..MaxLog}

InitRecon ==
    /\ r_stored \in Logs /\ r_pairs = <<>> /\ r_pc = "start"
    /\ AppIdle /\ ChunkIdle /\ PagesIdle

ReconRun ==
    /\ r_pc = "start"
    /\ r_pairs' = Reconstruct(r_stored)
    /\ r_pc' = "done"
    /\ UNCHANGED <<appVars, chunkVars, pageVars, r_stored>>

NextRecon == ReconRun

SpecRecon == InitRecon /\ [][NextRecon]_vars

\* ============================================ extraction and chunking alone
\* The file loop of upload without the store: extract_text_by_page on up to
\* MaxFiles saved files, under every outcome of the two pdf libraries, each
\* result appended to all_pages (line 123), then build_documents (line 126).
Sources == {"x.pdf", "y.pdf"}

InitPages ==
    /\ p_files = <<>> /\ p_all_pages = <<>> /\ p_docs = <<>> /\ p_pc = "files"
    /\ AppIdle /\ ChunkIdle /\ ReconIdle

PagesFrame == UNCHANGED <<appVars, chunkVars, reconVars>>

\* lines 121-123
ExtractFile(pdf, source, xo) ==
    /\ p_pc = "files"
    /\ Len(p_files) < MaxFiles
    /\ LET pages == ExtractTextByPage(pdf, source, xo)
       IN  /\ p_files' = Append(p_files, [pdf |-> pdf, source |-> source,
                                          xo |-> xo, pages |-> pages])
           /\ p_all_pages' = p_all_pages \o pages
    /\ UNCHANGED <<p_docs, p_pc>>
    /\ PagesFrame

\* lines 126-130
BuildDocs ==
    /\ p_pc = "files"
    /\ p_docs' = BuildDocuments(p_all_pages, CHUNK_SIZE, CHUNK_OVERLAP)
    /\ p_pc' = "built"
    /\ UNCHANGED <<p_files, p_all_pages>>
    /\ PagesFrame

DoExtractFile ==
    \E pdf \in Pdfs, source \in Sources :
        \E xo \in ExtractOutcomes(pdf) : ExtractFile(pdf, source, xo)

NextPages == DoExtractFile \/ BuildDocs

SpecPages == InitPages /\ [][NextPages]_vars

\* ------------------------------------------------------ claims C1, C3, C4
\* C1: right after a successful upload the store that load_store returns
\* for the session holds exactly the Documents of that upload, whichever
\* backends served this build and the builds before it (so no query can
\* return a Document that only an earlier upload contained).
C1_UploadReplacesStore ==
    \A s \in DOMAIN ready :
        (last.op = "upload" /\ last.status = 200 /\ last.s = s) =>
            LET loaded == LoadStore(store[s], AllWork)
            IN  ~loaded.raised /\ loaded.docs = built[s].docs

\* C3: a chat request that does not answer (400, 409 or 500 at load, at
\* get_llm or at conv.invoke) leaves the session's history as it was; the
\* history only ever changes by being emptied or by a successful chat
\* appending one user entry and one assistant entry together.
C3_FailedChatKeepsHistory ==
    [][ \A s \in DOMAIN history :
          /\ (last'.op = "chat" /\ last'.s = s /\ last'.status # 200)
                => history'[s] = history[s]
          /\ history'[s] # history[s] =>
                \/ history'[s] = <<>>
                \/ /\ last'.op = "chat" /\ last'.s = s /\ last'.status = 200
                   /\ Len(history'[s]) = Len(history[s]) + 2
                   /\ SubSeq(history'[s], 1, Len(history[s])) = history[s]
                   /\ history'[s][Len(history[s]) + 1].role = "user"
                   /\ history'[s][Len(history[s]) + 2].role = "assistant" ]_vars

\* A chat that failed inside conv.invoke on a session with a logged turn.
C3_Witness ==
    /\ last.op = "chat" /\ last.status = 500 /\ last.stage = "invoke"
    /\ Len(history[last.s]) = 2

\* C4: a chat handled while the session's last clear has not been followed
\* by a successful upload answers 400 (empty question) or 409 (not ready)
\* and returns before get_session_store_path / load_store: the store
\* directory is not touched and the request never ends as a 500.
C4_ChatAfterClearNotReady ==
    [][ \A s \in DOMAIN ready :
          (cleared[s] /\ last'.op = "chat" /\ last'.s = s) =>
              /\ last'.status \in {400, 409}
              /\ last'.stage \in {"question", "ready"}
              /\ store'[s] = store[s] ]_vars

\* A non-empty question refused with 409 after a clear whose rmtree failed,
\* so that the store built before the clear is still on disk.
C4_Witness ==
    /\ last.op = "chat" /\ last.status = 409
    /\ cleared[last.s]
    /\ store[last.s].marker \in Backends

\* ------------------------------------------------------------------ claim C5
\* C5: for every log the reconstruction returns, in log order, exactly one
\* pair per assistant entry that has a pending user entry (a user entry
\* after the previously emitted assistant entry, or after the start), with
\* the most recent user entry as the question and "" for a missing content;
\* every other entry is dropped.
C5_PairsAsDescribed ==
    LET log == r_stored
        ContentOf(e) == IF "content" \in DOMAIN e THEN e.content ELSE ""
        emitted[j \in 0..Len(log)] ==
            /\ j > 0
            /\ log[j].role = "assistant"
            /\ \E i \in 1..(j - 1) :
                  /\ log[i].role = "user"
                  /\ \A k \in i..(j - 1) : ~emitted[k]
        idx == {j \in 1..Len(log) : emitted[j]}
        nth(m) == CHOOSE j \in idx : Cardinality({k \in idx : k <= j}) = m
        lastUser(j) == CHOOSE i \in 1..(j - 1) :
                          /\ log[i].role = "user"
                          /\ \A k \in (i + 1)..(j - 1) : log[k].role # "user"
        expected == [m \in 1..Cardinality(idx) |->
                        <<ContentOf(log[lastUser(nth(m))]),
                          ContentOf(log[nth(m)])>>]
    IN  r_pc = "done" => r_pairs = expected

\* A log with an orphaned user entry, a pair and an unpaired assistant entry.
C5_Witness ==
    /\ r_pc = "done"
    /\ Len(r_stored) = 4
    /\ r_stored[1].role = "user" /\ r_stored[2].role = "user"
    /\ r_stored[3].role = "assistant" /\ r_stored[4].role = "assistant"
    /\ Len(r_pairs) = 1

\* ------------------------------------------------------------ claims C6-C8
\* C6: with size > 0 and overlap >= 0 (overlap >= size included) the loop of
\* _chunk_text terminates on every text: each iteration that does not stop
\* advances start by max(1, size - overlap) >= 1, the call returns, and it
\* never holds more chunks than the text has characters.
C6_ChunkLoopTerminates ==
    /\ []((c_size > 0 /\ c_overlap >= 0) => Len(c_chunks) <= Len(c_text))
    /\ [][ (c_size > 0 /\ c_overlap >= 0 /\ c_pc = "loop" /\ c_pc' = "loop")
             => /\ c_start' = c_start + Max(1, c_size - c_overlap)
                /\ c_start' > c_start ]_vars
    /\ ((c_size > 0 /\ c_overlap >= 0 /\ c_pc = "entry") ~> (c_pc = "done"))

\* A returned call with overlap >= size that produced one chunk per
\* character of a text of at least two characters.
C6_Witness ==
    /\ c_pc = "done"
    /\ c_size > 0 /\ c_overlap >= c_size
    /\ Len(c_text) >= 2
    /\ Len(c_chunks) = Len(c_text)

\* C7: with size > 0 and 0 <= overlap < size the returned chunk list is
\* empty iff the text is empty, and the first chunk followed by every later
\* chunk without its first `overlap` characters is the text itself.
C7_ChunksRejoinToText ==
    LET rejoin[i \in 0..Len(c_chunks)] ==
            IF i = 0 THEN <<>>
            ELSE IF i = 1 THEN c_chunks[1]
            ELSE rejoin[i - 1]
                   \o PySlice(c_chunks[i], c_overlap, Len(c_chunks[i]))
    IN  (c_pc = "done" /\ c_size > 0 /\ c_overlap >= 0 /\ c_overlap < c_size)
            => /\ (c_chunks = <<>>) <=> (c_text = <<>>)
               /\ rejoin[Len(c_chunks)] = c_text

\* A returned call with a real overlap and at least three chunks.
C7_Witness ==
    /\ c_pc = "done"
    /\ c_overlap > 0 /\ c_overlap < c_size
    /\ Len(c_chunks) >= 3

\* C8: a call with size <= 0 or overlap < 0 fails fast: it never enters the
\* loop, never returns normally and never emits a chunk.
C8_InvalidArgumentsRejected ==
    (c_size <= 0 \/ c_overlap < 0) =>
        /\ c_pc \notin {"loop", "done"}
        /\ c_chunks = <<>>

\* ---------------------------------------------------------- claims C11, C12
\* C11: a load that finds no readable marker runs the faiss loader, then the
\* chroma loader, then the reconstruction from docs.json, in that order,
\* returns the first index obtained, and raises only after all three
\* loaders were run and failed, whatever the failure of an earlier one was.
C11_UnknownMarkerTriesAll ==
    (last.op = "load" /\ last.stype = None) =>
        LET chain == <<"faiss", "chroma", "docarray">>
            n == Len(last.tried)
        IN  /\ last.tried = SubSeq(chain, 1, n)
            /\ last.raised => n = 3
            /\ ~last.raised => last.via = chain[n]

\* C12: a load that reads a marker naming faiss, chroma or docarray while
\* the payload of that backend is not in the directory raises: it returns
\* no index, neither an empty one nor one of another backend.
C12_MarkerWithoutPayloadRaises ==
    (last.op = "load" /\ last.stype \in Backends /\ ~last.on[last.stype])
        => last.raised

\* ------------------------------------------------------------------ claim C13
\* C13: whichever backend served a successful build, and whatever document
\* set it was given, a load of the same path with working libraries returns
\* an index of that backend over exactly the documents of the build, content
\* and metadata alike.
C13_LoadReturnsBuiltDocuments ==
    (last.op = "build" /\ ~last.raised) =>
        LET r == LoadStore(store["s1"], AllWork)
        IN  /\ ~r.raised
            /\ r.via = last.backend
            /\ r.docs = last.docs

\* ------------------------------------------------------------------ claim C14
\* C14: an upload whose files gave no page at all is never reported as
\* processed: no upload is answered 200 (with the session made ready and a
\* store built from nothing) when all_pages is empty.
C14_EmptyExtractionRejected ==
    (last.op = "upload" /\ last.status = 200) => ~last.no_pages

\* ---------------------------------------------------------- claims C15, C17
\* C15: in the list one build_documents call returns, two Documents with
\* the same source and page never carry the same chunk_id.
C15_ChunkIdsDistinct ==
    p_pc = "built" =>
        \A i, j \in 1..Len(p_docs) :
            (i # j /\ p_docs[i].source = p_docs[j].source
                   /\ p_docs[i].page = p_docs[j].page)
                => p_docs[i].chunk_id # p_docs[j].chunk_id

\* C17: the page list extract_text_by_page returns for one file has at most
\* one entry per page number, whichever library ends up reading the file,
\* and is empty when neither library read it to the end.
C17_OneEntryPerPage ==
    \A k \in 1..Len(p_files) :
        LET f == p_files[k]
        IN  /\ \A i, j \in 1..Len(f.pages) :
                  i # j => f.pages[i].page # f.pages[j].page
            /\ (f.xo.plumber # Whole /\ f.xo.reader # Whole) => f.pages = <<>>

\* ------------------------------------------------------------------ claim C16
\* C16: every clear request is answered 200 and leaves the session with an
\* empty history, ready = False and no store directory on disk.
C16_ClearRemovesStore ==
    last.op = "clear" =>
        /\ last.status = 200
        /\ history[last.s] = <<>>
        /\ ~ready[last.s]
        /\ ~store[last.s].exists

\* ------------------------------------------------------------------ claim C19
\* C19: an upload answered 500 because build_and_save_store raised, on a
\* session that was ready, changes neither the ready flag nor the history,
\* and a load of the session store returns the same documents after it as
\* before it.
C19_FailedUploadLeavesSession ==
    [][ \A s \in DOMAIN ready :
          (ready[s] /\ last'.op = "upload" /\ last'.s = s /\ last'.status = 500)
            => LET before == LoadStore(MakeDirs(store[s]), AllWork)
                   after == LoadStore(MakeDirs(store'[s]), AllWork)
               IN  /\ ready'[s] = ready[s]
                   /\ history'[s] = history[s]
                   /\ after.raised = before.raised
                   /\ after.docs = before.docs ]_vars

\* ------------------------------------------------------------------ claim C18
\* C18: with size > 0, overlap >= 0 and a non-empty text, the k-th chunk
\* (k from 0) is the text from offset k * max(1, size - overlap), of length
\* min(size, len(text) - offset); with overlap = size - 1 and
\* len(text) > size the call returns len(text) - size + 1 chunks.
C18_ChunkOffsets ==
    LET n == Len(c_text)
        step == Max(1, c_size - c_overlap)
    IN  (c_size > 0 /\ c_overlap >= 0 /\ c_text # <<>>) =>
            /\ \A k \in 0..(Len(c_chunks) - 1) :
                  LET at == k * step
                  IN  /\ at < n
                      /\ Len(c_chunks[k + 1]) = Min(c_size, n - at)
                      /\ c_chunks[k + 1] = SubSeq(c_text, at + 1, at + Min(c_size, n - at))
            /\ (c_pc = "done" /\ c_overlap = c_size - 1 /\ n > c_size)
                  => Len(c_chunks) = n - c_size + 1

\* A returned call with overlap = size - 1 >= 1 on a text longer than size.
C18_Witness ==
    /\ c_pc = "done"
    /\ c_size >= 2 /\ c_overlap = c_size - 1
    /\ Len(c_text) > c_size
    /\ Len(c_chunks) = Len(c_text) - c_size + 1

====
